---------------------------- MODULE Spec2Model ----------------------------
(***************************************************************************)
(* UV Cell Snap (src/__init__.py): detection of UV islands among the       *)
(* selected faces of the selected meshes, snap of every island to a grid   *)
(* cell (UVCellSnapOperator.execute) and offset of every island by one     *)
(* grid step (UVCellSnapOffset.execute).                                   *)
(*                                                                         *)
(* Coordinates are exact: a UV coordinate u is held as the integer         *)
(* u * Scale.  Scale is a multiple of 1000 (so 0.001 is an integer), of    *)
(* 2*columns and 2*rows of every grid used (so cell centres and steps are  *)
(* integers), and of Grain = 2^MaxInvocations; the initial coordinates are       *)
(* multiples of Grain, so each of the at most MaxInvocations halvings            *)
(* (min + max) / 2 of a run is exact.  Floating-point rounding is not      *)
(* modelled.                                                               *)
(***************************************************************************)
EXTENDS Integers, Sequences, FiniteSets

VARIABLES
    uv,           \* uv[f][k]: <<u, v>> of loop k of face f in the configured channel
    select,       \* select[f]: face.select
    has_channel,  \* has_channel[obj]: bm.loops.layers.uv.get(prefs.uv_channel) is not None
    grid,         \* <<prefs.grid_columns, prefs.grid_rows>>
    last,         \* the last invocation: operator, argument, return value, reports,
                  \* islands, the coordinates before it and the invocation before it
    invocations   \* number of invocations so far

vars == <<uv, select, has_channel, grid, last, invocations>>

-----------------------------------------------------------------------------
(* Bounds and scale *)

MaxInvocations == 2

RECURSIVE Pow2(_)
Pow2(n) == IF n = 0 THEN 1 ELSE 2 * Pow2(n - 1)

Grain == Pow2(MaxInvocations)

Scale == 6000 * Grain          \* the integer that stands for 1.0

Milli == Scale \div 1000       \* the integer that stands for 0.001

\* the threshold of are_uvs_connected, 0.001
Epsilon == Milli

Abs(n) == IF n < 0 THEN -n ELSE n

Min2(a, b) == IF a < b THEN a ELSE b

Max2(a, b) == IF a > b THEN a ELSE b

SetMin(S) == CHOOSE m \in S : \A n \in S : m <= n

SetMax(S) == CHOOSE m \in S : \A n \in S : m >= n

Range(s) == {s[i] : i \in DOMAIN s}

-----------------------------------------------------------------------------
(* The scene: the host's selection, the meshes' topology *)

\* context.selected_objects, in selection order
selected_objects == <<"meshA", "lamp", "meshB">>

\* obj.type
ObjType(obj) == IF obj = "lamp" THEN "LIGHT" ELSE "MESH"

Meshes == {o \in Range(selected_objects) : ObjType(o) = "MESH"}

\* bm.faces of each mesh, in index order
BmFaces(obj) ==
    IF obj = "meshA" THEN <<1, 2, 3, 4>>
    ELSE IF obj = "meshB" THEN <<5>>
    ELSE <<>>

Faces == UNION {Range(BmFaces(o)) : o \in Meshes}

\* edge.link_faces of every edge: faces 1, 2, 3 meet around one vertex,
\* face 4 hangs on face 3, face 5 is the only face of meshB
MeshEdges == { {1, 2}, {2, 3}, {1, 3}, {3, 4}, {1}, {2}, {4}, {5} }

\* the faces reached by "for edge in face.edges: for linked_face in edge.link_faces"
LinkedFaces(face) == UNION {e \in MeshEdges : face \in e}

\* face.loops, as loop handles <<face, corner>>
FaceLoops(face, uvs) == [k \in DOMAIN uvs[face] |-> <<face, k>>]

UvOf(uvs, loop) == uvs[loop[1]][loop[2]]

-----------------------------------------------------------------------------
(* Island detection (identical in both operators) *)

\* (p - q).length < 0.001.  The two coordinate differences are compared with
\* the threshold before they are squared, which decides the same inequality
\* and keeps the squares small.
UvCloser(p, q) ==
    LET dx == p[1] - q[1]
        dy == p[2] - q[2]
    IN  /\ Abs(dx) < Epsilon
        /\ Abs(dy) < Epsilon
        /\ dx * dx + dy * dy < Epsilon * Epsilon

\* are_uvs_connected without the comparison of coordinates: mesh adjacency alone
are_uvs_connected_MeshOnly(face1, face2, uvs) ==
    DOMAIN uvs[face1] # {} /\ DOMAIN uvs[face2] # {}

\* are_uvs_connected(face1, face2, uv_layer)
are_uvs_connected(face1, face2, uvs) ==
    \E i \in DOMAIN uvs[face1], j \in DOMAIN uvs[face2] :
        UvCloser(uvs[face1][i], uvs[face2][j])

\* to_process.pop(): the set gives its elements in an order of its own; rank
\* is the order of this run (the element of least rank comes first)
SetPop(to_process, rank) ==
    CHOOSE f \in to_process : \A g \in to_process : rank[f] <= rank[g]

\* the two for loops without the test of linked_face.select
NewLinked_Unselected(face, island_faces, processed_faces, uvs, sel) ==
    {linked_face \in LinkedFaces(face) :
        /\ linked_face \notin island_faces
        /\ linked_face \notin processed_faces
        /\ are_uvs_connected(face, linked_face, uvs)}

\* the faces the two for loops over face.edges and edge.link_faces add
NewLinked(face, island_faces, processed_faces, uvs, sel) ==
    {linked_face \in LinkedFaces(face) :
        /\ sel[linked_face]
        /\ linked_face \notin island_faces
        /\ linked_face \notin processed_faces
        /\ are_uvs_connected(face, linked_face, uvs)}

\* get_uv_island without "to_process.add(linked_face)": the start face's own
\* neighbours only
Traverse_OneLevel(island_faces, to_process, processed_faces, uvs, sel, rank) ==
    IF to_process = {} THEN island_faces
    ELSE LET face == SetPop(to_process, rank)
         IN  island_faces \cup NewLinked(face, island_faces, processed_faces, uvs, sel)

\* the while loop of get_uv_island
RECURSIVE Traverse(_, _, _, _, _, _)
Traverse(island_faces, to_process, processed_faces, uvs, sel, rank) ==
    IF to_process = {} THEN island_faces
    ELSE LET face == SetPop(to_process, rank)
             new == NewLinked(face, island_faces, processed_faces, uvs, sel)
         IN  Traverse(island_faces \cup new, (to_process \ {face}) \cup new,
                      processed_faces, uvs, sel, rank)

\* get_uv_island(start_face, uv_layer), with the processed_faces it closes over
get_uv_island(start_face, processed_faces, uvs, sel, rank) ==
    Traverse({start_face}, {start_face}, processed_faces, uvs, sel, rank)

\* "for island_face in island_faces": the faces of a set, in the order of rank
RECURSIVE SetToSeq(_, _)
SetToSeq(S, rank) ==
    IF S = {} THEN <<>>
    ELSE LET f == SetPop(S, rank) IN <<f>> \o SetToSeq(S \ {f}, rank)

\* island_uvs: the loops of every face of the island, one after the other
RECURSIVE CollectUvs(_, _)
CollectUvs(face_seq, uvs) ==
    IF face_seq = <<>> THEN <<>>
    ELSE FaceLoops(Head(face_seq), uvs) \o CollectUvs(Tail(face_seq), uvs)

\* the loop over bm.faces without "processed_faces.update(island_faces)"
RECURSIVE FindIslands_NoUpdate(_, _, _, _, _, _)
FindIslands_NoUpdate(faces_seq, processed_faces, islands, uvs, sel, rank) ==
    IF faces_seq = <<>> THEN islands
    ELSE LET face == Head(faces_seq) IN
         IF sel[face] /\ face \notin processed_faces
         THEN LET island_faces == get_uv_island(face, processed_faces, uvs, sel, rank)
                  island_uvs == CollectUvs(SetToSeq(island_faces, rank), uvs)
              IN  FindIslands_NoUpdate(Tail(faces_seq), processed_faces,
                              Append(islands, [faces |-> island_faces, uvs |-> island_uvs]),
                              uvs, sel, rank)
         ELSE FindIslands_NoUpdate(Tail(faces_seq), processed_faces, islands, uvs, sel, rank)

\* "for face in bm.faces": the list of islands, each with the faces it was
\* built from and its island_uvs
RECURSIVE FindIslands(_, _, _, _, _, _)
FindIslands(faces_seq, processed_faces, islands, uvs, sel, rank) ==
    IF faces_seq = <<>> THEN islands
    ELSE LET face == Head(faces_seq) IN
         IF sel[face] /\ face \notin processed_faces
         THEN LET island_faces == get_uv_island(face, processed_faces, uvs, sel, rank)
                  island_uvs == CollectUvs(SetToSeq(island_faces, rank), uvs)
              IN  FindIslands(Tail(faces_seq), processed_faces \cup island_faces,
                              Append(islands, [faces |-> island_faces, uvs |-> island_uvs]),
                              uvs, sel, rank)
         ELSE FindIslands(Tail(faces_seq), processed_faces, islands, uvs, sel, rank)

-----------------------------------------------------------------------------
(* Bounding box and translation of one island *)

\* twice center_x with the box started at [0, 0] instead of [inf, -inf]
CenterX2_ZeroBox(island_uvs, uvs) ==
    LET xs == {UvOf(uvs, island_uvs[i])[1] : i \in DOMAIN island_uvs} \cup {0}
    IN  SetMin(xs) + SetMax(xs)

\* bbox_min[0] + bbox_max[0]: twice center_x
CenterX2(island_uvs, uvs) ==
    LET xs == {UvOf(uvs, island_uvs[i])[1] : i \in DOMAIN island_uvs}
    IN  SetMin(xs) + SetMax(xs)

\* bbox_min[1] + bbox_max[1]: twice center_y
CenterY2(island_uvs, uvs) ==
    LET ys == {UvOf(uvs, island_uvs[i])[2] : i \in DOMAIN island_uvs}
    IN  SetMin(ys) + SetMax(ys)

\* n / 2 (exact on every sum the snap halves, see the head of the module)
Half(n) == n \div 2

\* "uv.x += dx; uv.y += dy" on one loop
AddToLoop(uvs, loop, dx, dy) ==
    [uvs EXCEPT ![loop[1]][loop[2]] = <<@[1] + dx, @[2] + dy>>]

\* grid_x[column] + 1 / (2 * columns)
TargetX(cell_index, columns) ==
    LET column == cell_index % columns
        grid_x == [i \in 0..(columns - 1) |-> (i * Scale) \div columns]
    IN  grid_x[column] + Scale \div (2 * columns)

\* the target without the reversal of Y: rows counted from the bottom
TargetY_NotReversed(cell_index, columns, rows) ==
    LET row == cell_index \div columns
        grid_y == [i \in 0..(rows - 1) |-> (i * Scale) \div rows]
    IN  grid_y[row] + Scale \div (2 * rows)

\* grid_y[row] - 1 / (2 * rows)
TargetY(cell_index, columns, rows) ==
    LET row == cell_index \div columns
        grid_y == [i \in 0..(rows - 1) |-> Scale - (i * Scale) \div rows]
    IN  grid_y[row] - Scale \div (2 * rows)

\* "for uv in island: uv.x += offset_x; uv.y += offset_y"
RECURSIVE SnapLoops(_, _, _, _)
SnapLoops(loops, uvs, offset_x, offset_y) ==
    IF loops = <<>> THEN uvs
    ELSE SnapLoops(Tail(loops), AddToLoop(uvs, Head(loops), offset_x, offset_y),
                   offset_x, offset_y)

\* the body of "for island in islands" of the snap operator
SnapIsland(island_uvs, uvs, target_x, target_y) ==
    LET center_x == Half(CenterX2(island_uvs, uvs))
        center_y == Half(CenterY2(island_uvs, uvs))
        offset_x == target_x - center_x
        offset_y == target_y - center_y
    IN  SnapLoops(island_uvs, uvs, offset_x, offset_y)

\* max(0, min(1, 1 / n))
ClampedOffset(n) == Max2(0, Min2(Scale, Scale \div n))

\* the if/elif chain with the guard taken on the coordinate being moved
\* instead of on the island's centre
OffsetLoop_OwnCoordinate(uvs, loop, direction, cx2, cy2, clamped_offset_x, clamped_offset_y) ==
    LET x == UvOf(uvs, loop)[1]
        y == UvOf(uvs, loop)[2]
    IN  IF direction = "up" /\ y + clamped_offset_y < Scale
        THEN AddToLoop(uvs, loop, 0, clamped_offset_y)
        ELSE IF direction = "down" /\ y - clamped_offset_y > 0
        THEN AddToLoop(uvs, loop, 0, -clamped_offset_y)
        ELSE IF direction = "right" /\ x + clamped_offset_x < Scale
        THEN AddToLoop(uvs, loop, clamped_offset_x, 0)
        ELSE IF direction = "left" /\ x - clamped_offset_x > 0
        THEN AddToLoop(uvs, loop, -clamped_offset_x, 0)
        ELSE uvs

\* the if/elif chain with the guard taken on the centre before the move
\* ("center_y < 1") instead of after it
OffsetLoop_GuardBeforeStep(uvs, loop, direction, cx2, cy2, clamped_offset_x, clamped_offset_y) ==
    IF direction = "up" /\ cy2 < 2 * Scale
    THEN AddToLoop(uvs, loop, 0, clamped_offset_y)
    ELSE IF direction = "down" /\ cy2 > 0
    THEN AddToLoop(uvs, loop, 0, -clamped_offset_y)
    ELSE IF direction = "right" /\ cx2 < 2 * Scale
    THEN AddToLoop(uvs, loop, clamped_offset_x, 0)
    ELSE IF direction = "left" /\ cx2 > 0
    THEN AddToLoop(uvs, loop, -clamped_offset_x, 0)
    ELSE uvs

\* the if/elif chain on one loop of the offset operator; cx2 and cy2 are
\* twice center_x and center_y, so "center_y + step < 1" is cy2 + 2*step < 2
OffsetLoop(uvs, loop, direction, cx2, cy2, clamped_offset_x, clamped_offset_y) ==
    IF direction = "up" /\ cy2 + 2 * clamped_offset_y < 2 * Scale
    THEN AddToLoop(uvs, loop, 0, clamped_offset_y)
    ELSE IF direction = "down" /\ cy2 - 2 * clamped_offset_y > 0
    THEN AddToLoop(uvs, loop, 0, -clamped_offset_y)
    ELSE IF direction = "right" /\ cx2 + 2 * clamped_offset_x < 2 * Scale
    THEN AddToLoop(uvs, loop, clamped_offset_x, 0)
    ELSE IF direction = "left" /\ cx2 - 2 * clamped_offset_x > 0
    THEN AddToLoop(uvs, loop, -clamped_offset_x, 0)
    ELSE uvs

\* "for uv in island" of the offset operator
RECURSIVE OffsetLoops(_, _, _, _, _, _, _)
OffsetLoops(loops, uvs, direction, cx2, cy2, clamped_offset_x, clamped_offset_y) ==
    IF loops = <<>> THEN uvs
    ELSE OffsetLoops(Tail(loops),
                     OffsetLoop(uvs, Head(loops), direction, cx2, cy2,
                                clamped_offset_x, clamped_offset_y),
                     direction, cx2, cy2, clamped_offset_x, clamped_offset_y)

\* the body of "for island in islands" of the offset operator: the centre is
\* computed once, before the loop over the island's coordinates
OffsetIsland(island_uvs, uvs, direction, columns, rows) ==
    OffsetLoops(island_uvs, uvs, direction,
                CenterX2(island_uvs, uvs), CenterY2(island_uvs, uvs),
                ClampedOffset(columns), ClampedOffset(rows))

\* "for island in islands": req is the invocation, [op, cell_index, direction]
RECURSIVE MoveIslands(_, _, _, _)
MoveIslands(islands, uvs, req, prefs) ==
    IF islands = <<>> THEN uvs
    ELSE LET island == Head(islands).uvs
             moved == IF req.op = "snap"
                      THEN SnapIsland(island, uvs,
                                      TargetX(req.cell_index, prefs[1]),
                                      TargetY(req.cell_index, prefs[1], prefs[2]))
                      ELSE OffsetIsland(island, uvs, req.direction, prefs[1], prefs[2])
         IN  MoveIslands(Tail(islands), moved, req, prefs)

-----------------------------------------------------------------------------
(* One invocation over context.selected_objects *)

NoIslands == [m \in Meshes |-> <<>>]

\* "for obj in context.selected_objects" of either operator.  acc holds the
\* coordinates, the reports, the islands of every mesh reached so far and the
\* meshes that reached bmesh.update_edit_mesh.
RECURSIVE ForObjects(_, _, _, _, _, _, _)
ForObjects(objs, acc, sel, chan, req, prefs, rank) ==
    IF objs = <<>> THEN [acc EXCEPT !.result = "FINISHED"]
    ELSE LET obj == Head(objs) IN
         IF ObjType(obj) # "MESH"
         THEN ForObjects(Tail(objs), acc, sel, chan, req, prefs, rank)
         ELSE IF ~chan[obj]
         THEN [acc EXCEPT !.reports = Append(@, <<"ERROR", "UV channel not found">>),
                          !.result = "CANCELLED"]
         ELSE LET islands == FindIslands(BmFaces(obj), {}, <<>>, acc.uv, sel, rank)
                  warned == IF islands = <<>>
                            THEN Append(acc.reports, <<"WARNING", "No selected UVs found">>)
                            ELSE acc.reports
                  moved == MoveIslands(islands, acc.uv, req, prefs)
              IN  ForObjects(Tail(objs),
                             [acc EXCEPT !.uv = moved,
                                         !.reports = warned,
                                         !.islands[obj] = islands,
                                         !.updated = @ \cup {obj}],
                             sel, chan, req, prefs, rank)

StartAcc(uvs) ==
    [uv |-> uvs, reports |-> <<>>, islands |-> NoIslands, updated |-> {}, result |-> ""]

\* the snap with the cell index wrapped around instead of refused
SnapExecute_Wraps(objs, uvs, sel, chan, cell_index, prefs, rank) ==
    ForObjects(objs, StartAcc(uvs), sel, chan,
               [op |-> "snap", cell_index |-> cell_index % (prefs[1] * prefs[2]),
                direction |-> ""],
               prefs, rank)

\* UVCellSnapOperator.execute as a function of the scene
SnapExecute(objs, uvs, sel, chan, cell_index, prefs, rank) ==
    LET columns == prefs[1]
        rows == prefs[2]
        max_cells == columns * rows
    IN  IF cell_index >= max_cells
        THEN [StartAcc(uvs) EXCEPT
                 !.reports = <<<<"ERROR", "Cell index out of bounds">>>>,
                 !.result = "CANCELLED"]
        ELSE ForObjects(objs, StartAcc(uvs), sel, chan,
                        [op |-> "snap", cell_index |-> cell_index, direction |-> ""],
                        prefs, rank)

\* UVCellSnapOffset.execute as a function of the scene
OffsetExecute(objs, uvs, sel, chan, direction, prefs, rank) ==
    ForObjects(objs, StartAcc(uvs), sel, chan,
               [op |-> "offset", cell_index |-> -1, direction |-> direction],
               prefs, rank)

Invocation(op, cell_index, direction, out) ==
    [op |-> op, cell_index |-> cell_index, direction |-> direction,
     result |-> out.result, reports |-> out.reports,
     islands |-> out.islands, updated |-> out.updated,
     before |-> uv,
     prior |-> [op |-> last.op, cell_index |-> last.cell_index,
                direction |-> last.direction, islands |-> last.islands]]

-----------------------------------------------------------------------------
(* Inputs *)

P(a, b) == <<a * Milli, b * Milli>>

Tri(x, y, w, h) == <<P(x, y), P(x + w, y), P(x, y + h)>>

Quad(x, y, w, h) == <<P(x, y), P(x + w, y), P(x + w, y + h), P(x, y + h)>>

\* the UV placements a face starts from (thousandths of the UV square)
UvOptions(f) ==
    IF f = 1 THEN { Tri(0, 0, 200, 200),            \* bounding box [0,0.2]x[0,0.2]
                    Tri(-1000, 0, 200, 200) }       \* left of the UV square
    ELSE IF f = 2 THEN
         { <<<<200 * Milli + Grain, Grain>>, P(400, 0), P(300, 200)>>,  \* a corner nearer than 0.001 to (0.2, 0)
           <<P(201, 0), P(400, 0), P(300, 200)>>,   \* a corner at exactly 0.001 from (0.2, 0)
           Tri(200, 200, 200, 200) }                \* touches only Tri(0, 200, ..)
    ELSE IF f = 3 THEN { Tri(0, 200, 200, 200),     \* shares (0, 0.2) with Tri(0, 0, ..)
                         Tri(500, 500, 200, 200) }
    ELSE IF f = 4 THEN { Tri(0, 400, 200, 200),     \* shares (0, 0.4) with Tri(0, 200, ..)
                         Tri(300, 800, 200, 200),   \* centre at v = 0.9
                         Tri(0, 0, 200, 200) }      \* on top of face 1, no shared edge
    ELSE { Quad(600, 100, 300, 400),
           Quad(600, 1300, 300, 200) }              \* above the UV square

AllLayouts == {l \in [Faces -> UNION {UvOptions(f) : f \in Faces}] :
                  \A f \in Faces : l[f] \in UvOptions(f)}

\* the layouts the operators start from: faces 1 to 4 as one of four charts
Layouts ==
    {l \in AllLayouts :
        \/ /\ l[1] = Tri(0, 0, 200, 200)            \* one chain of touching faces
           /\ l[2][2] = P(400, 0) /\ l[2][1] # P(201, 0)
           /\ l[3] = Tri(0, 200, 200, 200)
           /\ l[4] = Tri(0, 400, 200, 200)
        \/ /\ l[1] = Tri(-1000, 0, 200, 200)        \* every face on its own
           /\ l[2] = Tri(200, 200, 200, 200)
           /\ l[3] = Tri(500, 500, 200, 200)
           /\ l[4] = Tri(300, 800, 200, 200)
        \/ /\ l[1] = Tri(0, 0, 200, 200)            \* equal triangles apart
           /\ l[2][1] = P(201, 0)
           /\ l[3] = Tri(500, 500, 200, 200)
           /\ l[4] = Tri(0, 0, 200, 200)
        \/ /\ l[1] = Tri(0, 0, 200, 200)            \* faces 1 and 2 joined through 3 only
           /\ l[2] = Tri(200, 200, 200, 200)
           /\ l[3] = Tri(0, 200, 200, 200)
           /\ l[4] = Tri(300, 800, 200, 200)}

\* the selections the operators start from (the selected faces)
Selections ==
    { {}, {1, 2, 3, 4}, {1, 2, 3, 4, 5}, {1, 4, 5}, {1, 3, 5}, {1, 2, 5} }

\* the configured channel is present on at least one of the selected meshes
ChannelOptions == {h \in [Meshes -> BOOLEAN] : \E m \in Meshes : h[m]}

\* <<grid_columns, grid_rows>>: the defaults and one more grid
Grids == { <<4, 2>>, <<2, 3>> }

\* cell_index: IntProperty(min=0)
CellIndices == {0, 5, 8}

\* direction: any string
Directions == {"up", "down", "left", "right", "forward"}

\* the orders in which a set gives its elements
PopOrders == { [f \in Faces |-> f], [f \in Faces |-> 0 - f] }

NoInvocation ==
    [op |-> "none", cell_index |-> -1, direction |-> "", result |-> "",
     reports |-> <<>>, islands |-> NoIslands, updated |-> {},
     before |-> [f \in Faces |-> <<>>],
     prior |-> [op |-> "none", cell_index |-> -1, direction |-> "",
                islands |-> NoIslands]]

-----------------------------------------------------------------------------
(* The operators as actions *)

Init ==
    /\ uv \in Layouts
    /\ \E S \in Selections : select = [f \in Faces |-> f \in S]
    /\ has_channel \in ChannelOptions
    /\ grid \in Grids
    /\ last = NoInvocation
    /\ invocations = 0

UVCellSnapOperator_execute(cell_index, rank) ==
    /\ invocations < MaxInvocations
    /\ LET out == SnapExecute(selected_objects, uv, select, has_channel,
                              cell_index, grid, rank)
       IN  /\ uv' = out.uv
           /\ last' = Invocation("snap", cell_index, "", out)
    /\ invocations' = invocations + 1
    /\ UNCHANGED <<select, has_channel, grid>>

UVCellSnapOffset_execute(direction, rank) ==
    /\ invocations < MaxInvocations
    /\ LET out == OffsetExecute(selected_objects, uv, select, has_channel,
                                direction, grid, rank)
       IN  /\ uv' = out.uv
           /\ last' = Invocation("offset", -1, direction, out)
    /\ invocations' = invocations + 1
    /\ UNCHANGED <<select, has_channel, grid>>

Next ==
    \/ \E c \in CellIndices, rank \in PopOrders : UVCellSnapOperator_execute(c, rank)
    \/ \E d \in Directions, rank \in PopOrders : UVCellSnapOffset_execute(d, rank)

Spec == Init /\ [][Next]_vars

-----------------------------------------------------------------------------
(* The detection loop alone, under every order of bm.faces and of set.pop *)

\* the orders in which the faces of a mesh may be iterated
FaceOrders(obj) ==
    LET n == Len(BmFaces(obj))
    IN  {s \in [1..n -> Range(BmFaces(obj))] : \A i, j \in 1..n : s[i] = s[j] => i = j}

\* every order in which sets of faces of meshA may give their elements
AllPopOrders ==
    {r \in [Faces -> 1..Cardinality(Faces)] :
        /\ r[5] = 5
        /\ \A f, g \in Faces : r[f] = r[g] => f = g}

InitDetect ==
    /\ uv \in {l \in AllLayouts : l[5] = Quad(600, 100, 300, 400)}
    /\ select \in {sel \in [Faces -> BOOLEAN] : ~sel[5]}
    /\ has_channel = [m \in Meshes |-> TRUE]
    /\ grid = <<4, 2>>
    /\ last = NoInvocation
    /\ invocations = 0

\* "islands = []; processed_faces = set(); for face in bm.faces: ..." on meshA
DetectIslands(faces_seq, rank) ==
    /\ last.op = "none"
    /\ last' = [NoInvocation EXCEPT
                   !.op = "detect",
                   !.islands["meshA"] = FindIslands(faces_seq, {}, <<>>, uv, select, rank)]
    /\ UNCHANGED <<uv, select, has_channel, grid, invocations>>

NextDetect ==
    \E faces_seq \in FaceOrders("meshA"), rank \in AllPopOrders :
        DetectIslands(faces_seq, rank)

SpecDetect == InitDetect /\ [][NextDetect]_vars

-----------------------------------------------------------------------------
(* What the properties are stated with *)

\* the islands of mesh m detected by the last invocation
IslandsOf(m) == last.islands[m]

\* the groups of faces those islands were built from
Grouping(islands) == {islands[i].faces : i \in DOMAIN islands}

SelectedFaces(m) == {f \in Range(BmFaces(m)) : select[f]}

\* the coordinates the last detection read
DetectionUv == IF last.op = "detect" THEN uv ELSE last.before

\* the meshes whose islands the last invocation detected
Detected(m) == (last.op = "detect" /\ m = "meshA") \/ m \in last.updated

\* twice the bounding-box centre of a list of loops on one axis (1: u, 2: v)
BoxCentre2(loops, uvs, axis) ==
    LET cs == {UvOf(uvs, loops[k])[axis] : k \in DOMAIN loops}
    IN  SetMin(cs) + SetMax(cs)

ShareEdge(f, g) == f # g /\ \E e \in MeshEdges : f \in e /\ g \in e

\* the Euclidean distance of two coordinates is below 0.001
Within(p, q) ==
    /\ Abs(p[1] - q[1]) < Milli
    /\ Abs(p[2] - q[2]) < Milli
    /\ (p[1] - q[1]) * (p[1] - q[1]) + (p[2] - q[2]) * (p[2] - q[2]) < Milli * Milli

\* the Euclidean distance of two coordinates is above 0.001
Beyond(p, q) ==
    \/ Abs(p[1] - q[1]) > Milli
    \/ Abs(p[2] - q[2]) > Milli
    \/ (p[1] - q[1]) * (p[1] - q[1]) + (p[2] - q[2]) * (p[2] - q[2]) > Milli * Milli

\* both faces selected, sharing an edge, some pair of corners closer than 0.001
UvLinked(f, g, uvs) ==
    /\ select[f] /\ select[g]
    /\ ShareEdge(f, g)
    /\ \E i \in DOMAIN uvs[f], j \in DOMAIN uvs[g] : Within(uvs[f][i], uvs[g][j])

\* the class of f under the reflexive-transitive closure of UvLinked
RECURSIVE Closure(_, _)
Closure(S, uvs) ==
    LET T == S \cup {g \in Faces : \E h \in S : UvLinked(h, g, uvs)}
    IN  IF T = S THEN S ELSE Closure(T, uvs)

\* every pair of corners of the two faces is farther apart than 0.001
SeamBetween(f, g, uvs) ==
    \A i \in DOMAIN uvs[f], j \in DOMAIN uvs[g] : Beyond(uvs[f][i], uvs[g][j])

SameIsland(m, f, g) ==
    \E i \in DOMAIN IslandsOf(m) : f \in IslandsOf(m)[i].faces /\ g \in IslandsOf(m)[i].faces

InBounds == last.cell_index < grid[1] * grid[2]

Cardinal == {"up", "down", "left", "right"}

\* some coordinate of the island differs from its value before the invocation
Moved(loops) == \E k \in DOMAIN loops : UvOf(uv, loops[k]) # UvOf(last.before, loops[k])

-----------------------------------------------------------------------------
(* Island detection: C2, C3, C10 (SpecDetect) *)

\* C2: the islands of one detection are pairwise disjoint as sets of faces and
\* their union is exactly the set of selected faces of the mesh.
IslandsPartitionSelection ==
    \A m \in Meshes : Detected(m) =>
        LET isl == IslandsOf(m) IN
        /\ \A i, j \in DOMAIN isl : i # j => isl[i].faces \cap isl[j].faces = {}
        /\ UNION Grouping(isl) = SelectedFaces(m)

\* C2 witness: a detection with an unselected face, an island of several faces
\* and a second island
PartitionWitness ==
    /\ last.op = "detect"
    /\ \E f \in Range(BmFaces("meshA")) : ~select[f]
    /\ Len(IslandsOf("meshA")) >= 2
    /\ \E i \in DOMAIN IslandsOf("meshA") : Cardinality(IslandsOf("meshA")[i].faces) >= 2

\* C3 as stated: two selected faces that share an edge and whose corners are
\* pairwise farther apart than 0.001 end up in different islands.
SeamFacesInDifferentIslands ==
    \A m \in Meshes : Detected(m) =>
        \A f, g \in SelectedFaces(m) :
            (ShareEdge(f, g) /\ SeamBetween(f, g, DetectionUv)) => ~SameIsland(m, f, g)

\* C3 amended: such a pair ends up in different islands unless a chain of
\* selected faces, each sharing an edge and a corner (within 0.001) with the
\* next, joins the two.
SeamFacesSplitUnlessChained ==
    \A m \in Meshes : Detected(m) =>
        \A f, g \in SelectedFaces(m) :
            (ShareEdge(f, g) /\ SeamBetween(f, g, DetectionUv))
                => (SameIsland(m, f, g) <=> g \in Closure({f}, DetectionUv))

\* C3 witness: a seam between two selected faces with no chain around it, and
\* the two faces in different islands
SeamWitness ==
    /\ last.op = "detect"
    /\ \E f, g \in SelectedFaces("meshA") :
          /\ ShareEdge(f, g) /\ SeamBetween(f, g, uv)
          /\ g \notin Closure({f}, uv)
          /\ ~SameIsland("meshA", f, g)
          /\ \E h \in SelectedFaces("meshA") : h # f /\ h # g /\ ShareEdge(h, f) /\ ShareEdge(h, g)

\* C10: the groups of faces are exactly the classes of the reflexive-transitive
\* closure of UvLinked over the selected faces, whatever the order in which
\* bm.faces is iterated and the traversal set is popped.
IslandsAreComponents ==
    \A m \in Meshes : Detected(m) =>
        Grouping(IslandsOf(m)) = {Closure({f}, DetectionUv) : f \in SelectedFaces(m)}

\* C10 witness: an unselected face that touches two selected faces in UV
\* space and leaves them in different islands, beside an island of two faces
ComponentsWitness ==
    /\ last.op = "detect"
    /\ \E f, g, h \in Range(BmFaces("meshA")) :
          /\ select[f] /\ select[g] /\ ~select[h]
          /\ ShareEdge(f, h) /\ ShareEdge(h, g) /\ ~ShareEdge(f, g)
          /\ are_uvs_connected(f, h, uv) /\ are_uvs_connected(h, g, uv)
          /\ ~SameIsland("meshA", f, g)
    /\ \E i \in DOMAIN IslandsOf("meshA") : Cardinality(IslandsOf("meshA")[i].faces) = 2

-----------------------------------------------------------------------------
(* Snap: C1, C7, C9 *)

\* C1: after a snap with cell_index < columns*rows, every island detected on a
\* mesh that has the channel has its bounding-box centre at
\* x = column/columns + 1/(2*columns), y = (1 - row/rows) - 1/(2*rows); with
\* columns=4, rows=2, cell_index=5 an island with bounding box
\* [0,0.2]x[0,0.2] is translated by (+0.275, +0.15).
SnapCentresIslandsOnCell ==
    (last.op = "snap" /\ InBounds) =>
        \A m \in Meshes : has_channel[m] =>
            \A i \in DOMAIN IslandsOf(m) :
                LET loops == IslandsOf(m)[i].uvs
                    columns == grid[1]
                    rows == grid[2]
                    row == last.cell_index \div columns
                    column == last.cell_index % columns
                IN  /\ BoxCentre2(loops, uv, 1) * columns = (2 * column + 1) * Scale
                    /\ BoxCentre2(loops, uv, 2) * rows = (2 * rows - 2 * row - 1) * Scale
                    /\ ( /\ grid = <<4, 2>> /\ last.cell_index = 5
                         /\ {UvOf(last.before, loops[k])[1] : k \in DOMAIN loops}
                                \subseteq 0..(200 * Milli)
                         /\ {UvOf(last.before, loops[k])[2] : k \in DOMAIN loops}
                                \subseteq 0..(200 * Milli)
                         /\ BoxCentre2(loops, last.before, 1) = 200 * Milli
                         /\ BoxCentre2(loops, last.before, 2) = 200 * Milli )
                       => \A k \in DOMAIN loops :
                              /\ UvOf(uv, loops[k])[1]
                                     = UvOf(last.before, loops[k])[1] + 275 * Milli
                              /\ UvOf(uv, loops[k])[2]
                                     = UvOf(last.before, loops[k])[2] + 150 * Milli

\* C1 witness: the example (4x2 grid, cell 5, an island with bounding box
\* [0,0.2]x[0,0.2]) beside a second island on the same mesh
SnapWitness ==
    /\ last.op = "snap" /\ last.cell_index = 5 /\ grid = <<4, 2>>
    /\ has_channel["meshA"]
    /\ Len(IslandsOf("meshA")) >= 2
    /\ \E i \in DOMAIN IslandsOf("meshA") :
          LET loops == IslandsOf("meshA")[i].uvs IN
          /\ BoxCentre2(loops, last.before, 1) = 200 * Milli
          /\ BoxCentre2(loops, last.before, 2) = 200 * Milli
          /\ UvOf(last.before, loops[1]) = P(0, 0)
          /\ UvOf(uv, loops[1]) = P(275, 150)

\* C7: a snap that follows a snap with the same cell_index leaves every
\* coordinate as the first one wrote it.
SnapTwiceChangesNothing ==
    (last.op = "snap" /\ last.prior.op = "snap"
        /\ last.prior.cell_index = last.cell_index)
        => uv = last.before

\* C7 witness: the second of two equal in-bounds snaps, which found the faces
\* of a mesh grouped differently from the first
SnapTwiceWitness ==
    /\ last.op = "snap" /\ last.prior.op = "snap"
    /\ last.prior.cell_index = last.cell_index
    /\ InBounds
    /\ \E m \in Meshes :
          /\ m \in last.updated
          /\ Grouping(IslandsOf(m)) # Grouping(last.prior.islands[m])
          /\ Len(IslandsOf(m)) < Len(last.prior.islands[m])

\* C9: a snap with cell_index >= columns*rows reports an error, returns
\* cancelled and changes no coordinate.
OutOfBoundsSnapChangesNothing ==
    (last.op = "snap" /\ ~InBounds) =>
        /\ last.result = "CANCELLED"
        /\ \E k \in DOMAIN last.reports : last.reports[k][1] = "ERROR"
        /\ uv = last.before

\* C9 witness: cell_index 8 on the 4x2 grid, with selected faces on meshes
\* that have the channel
OutOfBoundsWitness ==
    /\ last.op = "snap" /\ last.cell_index = 8 /\ grid = <<4, 2>>
    /\ \A m \in Meshes : has_channel[m] /\ SelectedFaces(m) # {}
    /\ last.result = "CANCELLED"

-----------------------------------------------------------------------------
(* Offset: C5, C6 *)

\* 1/columns on axis 1, 1/rows on axis 2
Step(axis) == Scale \div grid[axis]

Axis(direction) == IF direction \in {"up", "down"} THEN 2 ELSE 1

\* the guard of the move, on twice the centre c2 before the move
Guard(direction, c2) ==
    IF direction \in {"up", "right"}
    THEN c2 + 2 * Step(Axis(direction)) < 2 * Scale
    ELSE c2 - 2 * Step(Axis(direction)) > 0

\* the vector of the move
Delta(direction) ==
    IF direction = "up" THEN <<0, Step(2)>>
    ELSE IF direction = "down" THEN <<0, 0 - Step(2)>>
    ELSE IF direction = "right" THEN <<Step(1), 0>>
    ELSE <<0 - Step(1), 0>>

\* C5: an offset in one of the four directions moves every coordinate of an
\* island by one grid step iff the guard holds of the island's centre before
\* the move, and leaves every coordinate of the island unchanged otherwise
\* (4x2 grid: an island centred at v = 0.9 is unchanged by "up").
OffsetMovesWholeIslandOrNothing ==
    (last.op = "offset" /\ last.direction \in Cardinal) =>
        \A m \in Meshes : \A i \in DOMAIN IslandsOf(m) :
            LET loops == IslandsOf(m)[i].uvs
                c2 == BoxCentre2(loops, last.before, Axis(last.direction))
                d == IF Guard(last.direction, c2) THEN Delta(last.direction) ELSE <<0, 0>>
            IN  \A k \in DOMAIN loops :
                    /\ UvOf(uv, loops[k])[1] = UvOf(last.before, loops[k])[1] + d[1]
                    /\ UvOf(uv, loops[k])[2] = UvOf(last.before, loops[k])[2] + d[2]

\* C5 witness: "up" on the 4x2 grid with an island centred at v = 0.9 left
\* where it is and another island of the same mesh moved
OffsetWitness ==
    /\ last.op = "offset" /\ last.direction = "up" /\ grid = <<4, 2>>
    /\ \E m \in Meshes : \E i, j \in DOMAIN IslandsOf(m) :
          /\ BoxCentre2(IslandsOf(m)[i].uvs, last.before, 2) = 1800 * Milli
          /\ ~Moved(IslandsOf(m)[i].uvs)
          /\ Moved(IslandsOf(m)[j].uvs)

\* C6 as stated: an island the offset moves has its centre strictly within
\* (0,1) on the moved axis afterwards, wherever it was before.
OffsetLeavesCentreInside ==
    (last.op = "offset" /\ last.direction \in Cardinal) =>
        \A m \in Meshes : \A i \in DOMAIN IslandsOf(m) :
            LET loops == IslandsOf(m)[i].uvs IN
            Moved(loops) =>
                /\ BoxCentre2(loops, uv, Axis(last.direction)) > 0
                /\ BoxCentre2(loops, uv, Axis(last.direction)) < 2 * Scale

\* C6 amended: an island the offset moves has its centre below 1 ("up",
\* "right") or above 0 ("down", "left") on the moved axis afterwards, and
\* strictly within (0,1) when the centre was within [0,1] on that axis before.
OffsetLeavesCentreOnGridSide ==
    (last.op = "offset" /\ last.direction \in Cardinal) =>
        \A m \in Meshes : \A i \in DOMAIN IslandsOf(m) :
            LET loops == IslandsOf(m)[i].uvs
                axis == Axis(last.direction)
                was == BoxCentre2(loops, last.before, axis)
                now == BoxCentre2(loops, uv, axis)
            IN  Moved(loops) =>
                    /\ last.direction \in {"up", "right"} => now < 2 * Scale
                    /\ last.direction \in {"down", "left"} => now > 0
                    /\ (0 <= was /\ was <= 2 * Scale) => (0 < now /\ now < 2 * Scale)

\* C6 witness: one offset that moves an island that was inside and an island
\* that was outside [0,1] on the moved axis
OffsetSideWitness ==
    /\ last.op = "offset" /\ last.direction \in Cardinal
    /\ \E m, n \in Meshes :
          \E i \in DOMAIN IslandsOf(m), j \in DOMAIN IslandsOf(n) :
              LET a == IslandsOf(m)[i].uvs
                  b == IslandsOf(n)[j].uvs
                  axis == Axis(last.direction)
              IN  /\ Moved(a) /\ Moved(b)
                  /\ BoxCentre2(a, last.before, axis) \in 0..(2 * Scale)
                  /\ BoxCentre2(b, last.before, axis) \notin 0..(2 * Scale)

-----------------------------------------------------------------------------
(* Both operators: C4, C8 *)

\* the selection without the meshes that lack the channel
WithChannel ==
    SelectSeq(selected_objects, LAMBDA o : ObjType(o) # "MESH" \/ has_channel[o])

\* C4 as stated: a mesh that lacks the channel is reported and skipped, and
\* every other selected mesh is processed as if that mesh were not selected.
MissingChannelStopsThatMeshOnly ==
    ((last.op = "snap" /\ InBounds) \/ last.op = "offset") =>
        /\ (\E m \in Meshes : ~has_channel[m])
              => \E k \in DOMAIN last.reports : last.reports[k][1] = "ERROR"
        /\ \A m \in Meshes : has_channel[m] => m \in last.updated
        /\ \E rank \in PopOrders :
              uv = IF last.op = "snap"
                   THEN SnapExecute(WithChannel, last.before, select, has_channel,
                                    last.cell_index, grid, rank).uv
                   ELSE OffsetExecute(WithChannel, last.before, select, has_channel,
                                      last.direction, grid, rank).uv

\* C8: no loop occurs twice in the islands of one invocation, and the
\* difference between any two coordinates of an island is the same after the
\* invocation as before it.
IslandsMoveRigidly ==
    last.op \in {"snap", "offset"} =>
        \A m \in Meshes :
            LET isl == IslandsOf(m) IN
            /\ \A i, j \in DOMAIN isl :
                   \A k \in DOMAIN isl[i].uvs, l \in DOMAIN isl[j].uvs :
                       isl[i].uvs[k] = isl[j].uvs[l] => (i = j /\ k = l)
            /\ \A i \in DOMAIN isl :
                   \A k, l \in DOMAIN isl[i].uvs :
                       LET a == isl[i].uvs[k]
                           b == isl[i].uvs[l]
                       IN  /\ UvOf(uv, a)[1] - UvOf(uv, b)[1]
                                  = UvOf(last.before, a)[1] - UvOf(last.before, b)[1]
                           /\ UvOf(uv, a)[2] - UvOf(uv, b)[2]
                                  = UvOf(last.before, a)[2] - UvOf(last.before, b)[2]
                           /\ UvOf(uv, a)[1] - UvOf(last.before, a)[1]
                                  = UvOf(uv, b)[1] - UvOf(last.before, b)[1]

\* C8 witness: an island of several faces that an invocation moved, beside
\* another island of the same mesh
RigidWitness ==
    /\ last.op \in {"snap", "offset"}
    /\ \E m \in Meshes : \E i, j \in DOMAIN IslandsOf(m) :
          /\ i # j
          /\ Cardinality(IslandsOf(m)[i].faces) >= 2
          /\ Moved(IslandsOf(m)[i].uvs)

=============================================================================
